---------------------------- MODULE Spec2Model ----------------------------
(***************************************************************************)
(* A model of BubbleTrans: the JSON configuration store (utils/config.py), *)
(* the LLM engine (engine/llm.py), the OCR engine (engine/ocr.py), the     *)
(* image canvas (ui/canvas.py), and the main window with its background    *)
(* TranslationWorker threads (ui/window.py).                               *)
(*                                                                         *)
(* Python strings that the code inspects (startswith, strip, rstrip, in,   *)
(* slicing) are sequences of tokens; a token of Whitespace is a run of     *)
(* white space.  Python values whose type matters are records with a type  *)
(* field.                                                                  *)
(***************************************************************************)
EXTENDS Integers, Sequences, FiniteSets, TLC

VARIABLES
    file,        \* config.json on disk
    readable,    \* whether open(CONFIG_FILE, 'r') and reading it succeed
    writable,    \* whether open(CONFIG_FILE, 'w') succeeds
    cfgCall,     \* the last load_config / save_config call and its outcome
    llm_engine,  \* the global LLMEngine instance (engine/llm.py)
    llmCall,     \* the last call of a method of llm_engine and its outcome
    ocr_engine,  \* the global OCREngine instance (engine/ocr.py)
    worker,      \* the TranslationWorker: where run() is, and its locals
    signals,     \* the signals the worker has emitted, in order
    trace,       \* the engine calls the worker has made, in order
    OCREngine_instance, \* OCREngine._instance: an object id, 0 for None
    ocr_objects, \* how many OCREngine objects have been allocated
    returned,    \* the object ids the calls OCREngine() returned, in order
    ocrCall,     \* the last call on OCREngine or its instance
    canvas,      \* the ImageCanvas (ui/canvas.py)
    region_selected, \* the crops emitted since the last left-button press
    window,      \* the MainWindow: its two text panes and self.worker
    workers,     \* every TranslationWorker the window has started
    queue,       \* worker signals queued for the user-interface thread
    temp_file    \* which selection's crop pact_crop.png holds, 0 for none

cfgVars == <<file, readable, writable, cfgCall>>
llmVars == <<llm_engine, llmCall>>
workerVars == <<ocr_engine, worker, signals, trace>>
ocrClassVars == <<OCREngine_instance, ocr_objects, returned, ocrCall>>
canvasVars == <<canvas, region_selected>>
windowVars == <<window, workers, queue, temp_file>>
uiVars == <<ocrClassVars, canvasVars, windowVars>>
vars == <<cfgVars, llmVars, workerVars, uiVars>>

-----------------------------------------------------------------------------
(* Python values                                                           *)

PyStr(s) == [type |-> "str", val |-> s]
PyBool(b) == [type |-> "bool", val |-> <<b>>]
PyNone == [type |-> "NoneType", val |-> <<>>]
\* an object of a class json cannot serialise
PyObject == [type |-> "object", val |-> <<>>]
IsStr(v) == v.type = "str"
\* bool(v) of a str or None
Truthy(v) == v.type = "str" /\ v.val # <<>>

PyDict(items) == [type |-> "dict", items |-> items]
PyList == [type |-> "list", items |-> <<>>]
EmptyItems == [k \in {} |-> PyNone]
EmptyDict == PyDict(EmptyItems)

-----------------------------------------------------------------------------
(* utils/config.py                                                         *)

Keys == {"api_key", "model"}
Vals == {PyStr(<<"v1">>), PyStr(<<"v2">>)}

Dicts == UNION {[ks -> Vals] : ks \in SUBSET Keys}
\* data may hold a value json.dump cannot serialise (it raises TypeError)
DataDicts == UNION {[ks -> Vals \cup {PyObject}] : ks \in SUBSET Keys}

\* what json.load can return for a well-formed file: an object, or another
\* JSON value (here an array)
JsonValues == {PyDict(d) : d \in Dicts} \cup {PyList}

Missing == [kind |-> "missing", value |-> EmptyDict]
\* content json.load rejects: hand-edited, or the partial output of a failed dump
Corrupt == [kind |-> "corrupt", value |-> EmptyDict]
JsonFile(v) == [kind |-> "json", value |-> v]
FileContents == {Missing, Corrupt} \cup {JsonFile(v) : v \in JsonValues}

\* dict.update: the keys of data override, the other keys are kept
Update(cur, data) ==
    [k \in (DOMAIN cur) \cup (DOMAIN data) |->
        IF k \in DOMAIN data THEN data[k] ELSE cur[k]]

\* load_config(): {} when the file is missing, json.load's value when the
\* file can be read and parsed, {} on any exception
load_config(f, canRead) ==
    IF f.kind = "missing" THEN EmptyDict
    ELSE IF ~canRead THEN EmptyDict
    ELSE IF f.kind = "corrupt" THEN EmptyDict
    ELSE f.value

\* save_config(data): [ret, file] after the call
save_config(f, canRead, canWrite, data) ==
    LET current_config == load_config(f, canRead) IN
    IF current_config.type # "dict"
    THEN \* current_config.update raises AttributeError
         [ret |-> FALSE, file |-> f]
    ELSE LET merged == Update(current_config.items, data) IN
         IF ~canWrite
         THEN \* open(CONFIG_FILE, 'w') raises
              [ret |-> FALSE, file |-> f]
         ELSE IF \E k \in DOMAIN merged : merged[k].type = "object"
         THEN \* the file was truncated by open(); json.dump raises part-way
              [ret |-> FALSE, file |-> Corrupt]
         ELSE [ret |-> TRUE, file |-> JsonFile(PyDict(merged))]

-----------------------------------------------------------------------------
(* Python strings                                                          *)

Whitespace == {" ", "\n"}
\* s.strip() is empty
Blank(s) == \A i \in 1..Len(s) : s[i] \in Whitespace
\* s.startswith(p)
StartsWith(s, p) == Len(s) >= Len(p) /\ SubSeq(s, 1, Len(p)) = p
\* tok in s
Contains(s, tok) == \E i \in 1..Len(s) : s[i] = tok

\* u.rstrip('/')
RECURSIVE RStripSlash(_)
RStripSlash(u) ==
    IF u # <<>> /\ u[Len(u)] = "/"
    THEN RStripSlash(SubSeq(u, 1, Len(u) - 1))
    ELSE u

-----------------------------------------------------------------------------
(* engine/llm.py                                                           *)

OpenRouterUrl == <<"https://", "openrouter.ai", "/api/v1">>
OtherUrl == <<"https://", "api.openai.com", "/v1">>
DefaultModel == "google/gemini-2.0-flash-001"
\* what the settings dialog can hand over as a base URL
BaseUrls == {OpenRouterUrl, OpenRouterUrl \o <<"/">>, OtherUrl, <<>>}
Models == {DefaultModel, ""}
\* API keys, one character per element: empty, at most 8 and more than 8 long
ShortKey == <<"s", "k", "-", "1", "2">>
LongKey == <<"s", "k", "-", "1", "2", "3", "4", "5", "6", "7">>
ApiKeys == {<<>>, ShortKey, LongKey}

NoClient == [set |-> FALSE, base_url |-> <<>>, api_key |-> <<>>,
             default_headers |-> FALSE]
\* OpenAI(base_url=, api_key=, default_headers=): default_headers is whether
\* the OpenRouter headers are passed
OpenAI(base_url, api_key, default_headers) ==
    [set |-> TRUE, base_url |-> base_url, api_key |-> api_key,
     default_headers |-> default_headers]

\* LLMEngine.configure
configure(eng, api_key, base_url, model) ==
    LET e1 == [eng EXCEPT
                 !.api_key = api_key,
                 !.base_url = IF base_url # <<>> THEN RStripSlash(base_url) ELSE @,
                 !.model = IF model # "" THEN model ELSE @]
    IN  IF e1.api_key # <<>>
        THEN [e1 EXCEPT !.client =
                 OpenAI(e1.base_url, e1.api_key, Contains(e1.base_url, "openrouter.ai"))]
        ELSE e1

\* config.get(key, default).val
Get(config, key, default) ==
    IF key \in DOMAIN config THEN config[key].val ELSE default

\* LLMEngine.__init__ and _load_from_config, config being the items of the
\* dictionary load_config returned
LLMEngineNew(config) ==
    LET e0 == [api_key |-> Get(config, "api_key", <<>>),
               base_url |-> Get(config, "base_url", OpenRouterUrl),
               model |-> Get(config, "model", <<DefaultModel>>)[1],
               use_vision |-> Get(config, "use_vision", <<FALSE>>)[1],
               client |-> NoClient]
    IN  IF e0.api_key # <<>>
        THEN configure(e0, e0.api_key, e0.base_url, e0.model)
        ELSE e0

\* the dictionary save_settings stores (settings.py:372-377)
SettingsData(api_key, base_url, model, use_vision) ==
    [api_key |-> PyStr(api_key), base_url |-> PyStr(base_url),
     model |-> PyStr(<<model>>), use_vision |-> PyBool(use_vision)]

\* config.json when the program starts: none, one written by save_settings,
\* or one that only switches Vision mode on
StartFiles ==
    {Missing}
    \cup {JsonFile(PyDict(SettingsData(LongKey, u, DefaultModel, v))) :
            u \in {OpenRouterUrl, OtherUrl}, v \in BOOLEAN}
    \cup {JsonFile(PyDict([use_vision |-> PyBool(TRUE)]))}

NotConfiguredMsg == <<"Error:", " ", "API not configured. Please go to Settings.">>
ApiErrorMsg(e) == <<"API", " ", "Error:", " ", e>>
Translation == <<"translated">>

\* the crop file at image_path when it is read
ImageStates == {"ok", "missing", "empty", "unreadable"}
\* chat.completions.create: a reply with content, a reply whose content is
\* null, or an exception
ApiOutcomes == {"content", "null", "raise"}
TranslateEnvs == [image : ImageStates, api : ApiOutcomes]

\* LLMEngine.encode_image: [raised, ret]
encode_image(image_path, image) ==
    IF image = "missing" THEN [raised |-> FALSE, ret |-> PyNone]
    ELSE IF image = "unreadable" THEN [raised |-> TRUE, ret |-> PyNone]
    ELSE IF image = "empty" THEN [raised |-> FALSE, ret |-> PyStr(<<>>)]
    ELSE [raised |-> FALSE, ret |-> PyStr(<<"base64 of ">> \o image_path.val)]

TextPart(t) == [type |-> "text", text |-> t]
ImagePart(b64) == [type |-> "image_url", text |-> <<"data:image/jpeg;base64,">> \o b64]
ReadImagePrompt ==
    <<"Please read the English text in the image and translate it to Simplified Chinese.">>

\* the text part of the user message (llm.py:237-252)
UserText(text, image_path, use_vision) ==
    IF IsStr(text) /\ ~Blank(text.val)
    THEN TextPart(<<"Original Text:", "\n">> \o text.val)
    ELSE IF use_vision /\ Truthy(image_path)
    THEN TextPart(ReadImagePrompt)
    ELSE TextPart(<<"Original Text:", "\n">>)

\* mutant: the check for a missing client is missing
Configured_Always(eng) == TRUE
\* if not self.client
Configured(eng) == eng.client.set

\* LLMEngine.translate: [raised, ret, requests, failure, engine]; requests
\* are the chat-completion requests sent, failure tells what went wrong
translate(eng, text, context, image_path, use_vision, env) ==
    IF ~Configured(eng)
    THEN [raised |-> FALSE, ret |-> PyStr(NotConfiguredMsg), requests |-> <<>>,
          failure |-> "not_configured", engine |-> eng]
    ELSE
    LET wantsImage == use_vision /\ Truthy(image_path)
        enc == encode_image(image_path, env.image)
    IN  IF wantsImage /\ enc.raised
        THEN \* encode_image is called outside the try block
             [raised |-> TRUE, ret |-> PyNone, requests |-> <<>>,
              failure |-> "encode_error", engine |-> eng]
        ELSE
        LET user_content ==
                <<UserText(text, image_path, use_vision)>> \o
                (IF wantsImage /\ Truthy(enc.ret)
                 THEN <<ImagePart(enc.ret.val)>> ELSE <<>>)
            request == [client |-> eng.client, model |-> eng.model,
                        context |-> context, user_content |-> user_content]
        IN  IF env.api = "raise"
            THEN [raised |-> FALSE, ret |-> PyStr(ApiErrorMsg("connection error")),
                  requests |-> <<request>>, failure |-> "api_error", engine |-> eng]
            ELSE [raised |-> FALSE,
                  ret |-> IF env.api = "null" THEN PyNone ELSE PyStr(Translation),
                  requests |-> <<request>>, failure |-> "none", engine |-> eng]

\* what the server at base_url answers to the test request
ServerOutcomes == {"ok", "fail"}
Proxies == {"None", "http://127.0.0.1:7890"}
TestEnvs == [server : ServerOutcomes, http_proxy : Proxies, https_proxy : {"None"}]

Min(a, b) == IF a < b THEN a ELSE b
\* api_key[:4] ... api_key[-4:] if len(api_key) > 8 else '****'
MaskKey(api_key) ==
    SubSeq(api_key, 1, Min(4, Len(api_key))) \o <<"...">> \o
    (IF Len(api_key) > 8
     THEN SubSeq(api_key, Len(api_key) - 3, Len(api_key))
     ELSE <<"****">>)

\* LLMEngine.test_connection: [ok, message, requests]; message is the list
\* of lines returned, each a sequence of tokens
test_connection(api_key, base_url, model, env) ==
    LET clean_base_url == RStripSlash(base_url)
        isOpenRouter == Contains(clean_base_url, "openrouter.ai")
        head == << <<"=== Debug Information ===">>,
                   <<"Target URL: ">> \o clean_base_url,
                   <<"Model: ", model>>,
                   <<"API Key: ">> \o MaskKey(api_key),
                   <<"HTTP_PROXY: ", env.http_proxy>>,
                   <<"HTTPS_PROXY: ", env.https_proxy>> >>
        headers == IF isOpenRouter THEN << <<"Headers: ", "HTTP-Referer, X-Title">> >>
                   ELSE << >>
        curl_cmd == <<"curl.exe -v ">> \o clean_base_url \o
                    <<"/chat/completions", " -H Authorization: Bearer ">> \o
                    api_key \o <<" -d model: ", model>>
        failed(lines, e) ==
            [ok |-> FALSE,
             message |-> lines \o
                 << <<"ERROR: ", e>>, <<"=== Traceback ===">>, <<"Traceback: ", e>>,
                    <<"=== Manual Test Command (PowerShell) ===">>,
                    <<"You can try running this command in terminal to check network:">>,
                    curl_cmd >>]
        request == [client |-> OpenAI(clean_base_url, api_key, TRUE), model |-> model,
                    context |-> "", user_content |-> <<TextPart(<<"Hi">>)>>]
    IN  IF ~isOpenRouter
        THEN \* default_headers is unbound at llm.py:344: UnboundLocalError
             failed(head, "UnboundLocalError: default_headers")
                 @@ [requests |-> <<>>]
        ELSE IF env.server = "fail"
        THEN failed(head \o headers \o << <<"Attempting chat completion...">> >>,
                    "connection error")
                 @@ [requests |-> <<request>>]
        ELSE [ok |-> TRUE,
              message |-> << <<"Connection successful!">>, << >> >> \o head \o headers \o
                  << <<"Attempting chat completion...">>, <<"Response received.">>,
                     <<"Content: ", "Hello">> >>,
              requests |-> <<request>>]

-----------------------------------------------------------------------------
(* engine/ocr.py                                                           *)

OCREngineNew == [initialized |-> FALSE, ocr |-> "None"]

\* importing and constructing PaddleOCR
PaddleOutcomes == {"ok", "import_error", "init_error"}
\* one prediction followed by _extract_text: a stripped non-empty text, no
\* text, or an exception
OcrOutcomes == {"text", "none", "raise"}
OcrTexts == {<<"POW!">>, <<"HELLO", " ", "WORLD">>}
OcrEnvs == [paddle : PaddleOutcomes, exists : BOOLEAN, hasPredict : BOOLEAN,
            std : OcrOutcomes, lenient : OcrOutcomes, enhanced : OcrOutcomes,
            text : OcrTexts]

NotInitializedMsg == <<"Error:", " ", "PaddleOCR not initialized or not installed.">>
OcrErrorPrefix == <<"OCR", " ", "Error:">>
OcrErrorMsg(e) == <<"OCR", " ", "Error:", " ", e>>

\* OCREngine.initialize: [ret, ocr]
initialize(o, paddle) ==
    IF o.initialized THEN [ret |-> TRUE, ocr |-> o]
    ELSE IF paddle = "ok"
    THEN [ret |-> TRUE, ocr |-> [initialized |-> TRUE, ocr |-> "PaddleOCR"]]
    ELSE [ret |-> FALSE, ocr |-> o]

\* OCREngine.recognize: [ret, failure, ocr]
recognize(o, image_path, env) ==
    LET init == IF o.initialized THEN [ret |-> TRUE, ocr |-> o]
                ELSE initialize(o, env.paddle)
        result(t, f) == [ret |-> t, failure |-> f, ocr |-> init.ocr]
    IN  IF ~init.ret THEN result(NotInitializedMsg, "not_initialized")
        ELSE IF ~env.exists THEN result(<<>>, "none")
        \* strategy 1: standard recognition
        ELSE IF env.std = "raise" THEN result(OcrErrorMsg("predict failed"), "exception")
        ELSE IF env.std = "text" THEN result(env.text, "none")
        \* strategy 2: lenient recognition, with the predict API only
        ELSE IF env.hasPredict /\ env.lenient = "raise"
        THEN result(OcrErrorMsg("predict failed"), "exception")
        ELSE IF env.hasPredict /\ env.lenient = "text" THEN result(env.text, "none")
        \* strategy 3: enhanced image; its exceptions are swallowed
        ELSE IF env.enhanced = "text" THEN result(env.text, "none")
        ELSE result(<<>>, "none")

\* how many times OCREngine() is called
MaxConstructions == 4

\* cls._instance is None
NoInstance == 0

\* __new__ with the fields set on every call instead of on the first only
OCREngine_new_Resets(instance, objects, fields) ==
    IF instance = NoInstance
    THEN [instance |-> objects + 1, objects |-> objects + 1,
          fields |-> OCREngineNew, ret |-> objects + 1]
    ELSE [instance |-> instance, objects |-> objects,
          fields |-> OCREngineNew, ret |-> instance]

\* OCREngine.__new__ (the class has no __init__): the first call allocates
\* the object and sets its fields, every call returns cls._instance.
\* fields are the fields of the object cls._instance refers to.
OCREngine_new(instance, objects, fields) ==
    IF instance = NoInstance
    THEN [instance |-> objects + 1, objects |-> objects + 1,
          fields |-> OCREngineNew, ret |-> objects + 1]
    ELSE [instance |-> instance, objects |-> objects,
          fields |-> fields, ret |-> instance]

NoOcrCall == [op |-> "none"]

\* engine/ocr.py has been imported: ocr_engine = OCREngine() has run
ImportedOcr ==
    /\ OCREngine_instance = OCREngine_new(NoInstance, 0, OCREngineNew).instance
    /\ ocr_objects = OCREngine_new(NoInstance, 0, OCREngineNew).objects
    /\ returned = <<OCREngine_new(NoInstance, 0, OCREngineNew).ret>>
    /\ ocrCall = NoOcrCall

-----------------------------------------------------------------------------
(* ui/window.py: TranslationWorker                                         *)

TempPath == PyStr(<<"pact_crop.png">>)
Contexts == {"", "Batman"}

Status(msg) == [sig |-> "status", args |-> <<PyStr(<<msg>>)>>]
Error(msg) == [sig |-> "error", args |-> <<PyStr(msg)>>]
Finished(ocr_text, trans_text) ==
    [sig |-> "finished", args |-> <<PyStr(ocr_text), PyStr(trans_text)>>]

VisionOcrText == <<"Vision mode: local OCR skipped">>
NoTextMsg == <<"__OCR_NO_TEXT__">>

\* ocr_text.startswith("OCR Error:")
OcrFailed(ocr_text) == StartsWith(ocr_text, OcrErrorPrefix)
\* mutant: the check for an empty OCR result is missing
NoText_Never(ocr_text) == FALSE
\* not ocr_text.strip()
NoText(ocr_text) == Blank(ocr_text)

\* mutant: the return after error.emit(ocr_text) is missing
AfterOcr_NoReturn(ocr_text) ==
    IF OcrFailed(ocr_text)
    THEN [emit |-> <<Error(ocr_text), Status("Translating with LLM...")>>,
          pc |-> "translate"]
    ELSE IF Blank(ocr_text) THEN [emit |-> <<Error(NoTextMsg)>>, pc |-> "done"]
    ELSE [emit |-> <<Status("Translating with LLM...")>>, pc |-> "translate"]

\* run() after recognize returned (window.py:143-154): the signals emitted
\* and where run() goes
AfterOcr(ocr_text) ==
    IF OcrFailed(ocr_text) THEN [emit |-> <<Error(ocr_text)>>, pc |-> "done"]
    ELSE IF NoText(ocr_text) THEN [emit |-> <<Error(NoTextMsg)>>, pc |-> "done"]
    ELSE [emit |-> <<Status("Translating with LLM...")>>, pc |-> "translate"]

\* run() after translate returned or raised: finished.emit(ocr_text, trans_text),
\* which raises TypeError for a trans_text that is no str, and the except
\* branch's error.emit(str(e))
AfterTranslate(ocr_text, r) ==
    IF r.raised THEN <<Error(<<"PermissionError">>)>>
    ELSE IF ~IsStr(r.ret) THEN <<Error(<<"TypeError">>)>>
    ELSE <<Finished(ocr_text, r.ret.val)>>

NoWorker == [pc |-> "idle", image_path |-> TempPath, context |-> "",
             use_vision |-> FALSE, ocr_text |-> <<>>]

\* the trace of a translate call
TranslateEvents(text, use_vision, r) ==
    <<[ev |-> "translate", text |-> text, use_vision |-> use_vision,
       failure |-> r.failure, raised |-> r.raised, ret |-> r.ret]>> \o
    [i \in 1..Len(r.requests) |-> [ev |-> "request", request |-> r.requests[i]]]

-----------------------------------------------------------------------------
(* ui/canvas.py: ImageCanvas                                               *)

\* scene coordinates are reals (QRectF); they are counted in units of
\* 1/SceneUnit of an image pixel
SceneUnit == 4

\* self.current_pixmap = None
NoPixmap == [loaded |-> FALSE, w |-> 0, h |-> 0]
\* QPixmap(image_path) of a file that cannot be read is a null pixmap
NullPixmap == [loaded |-> TRUE, w |-> 0, h |-> 0]

\* the view transform: viewport pixel v is scene coordinate v * upp + o,
\* in scene units; Identity is the transform after resetTransform()
Identity == [upp |-> SceneUnit, ox |-> 0, oy |-> 0]

Rect(x, y, w, h) == [x |-> x, y |-> y, w |-> w, h |-> h]

\* ImageCanvas.__init__
ImageCanvasNew ==
    [pixmap_item |-> FALSE, current_pixmap |-> NoPixmap,
     has_user_transform |-> FALSE,
     is_selecting |-> FALSE, origin |-> <<0, 0>>, rubber_band |-> Rect(0, 0, 0, 0),
     is_panning |-> FALSE, pan_start |-> <<0, 0>>,
     view |-> Identity]

IdleCanvas ==
    /\ canvas = ImageCanvasNew
    /\ region_selected = <<>>

Max(a, b) == IF a > b THEN a ELSE b

\* QRect.isEmpty, QRectF.isEmpty
IsEmpty(r) == r.w <= 0 \/ r.h <= 0

\* QRect.intersected, QRectF.intersected: the null rectangle when the two
\* do not overlap
Intersected(a, b) ==
    LET l == Max(a.x, b.x)
        r == Min(a.x + a.w, b.x + b.w)
        t == Max(a.y, b.y)
        d == Min(a.y + a.h, b.y + b.h)
    IN  IF IsEmpty(a) \/ IsEmpty(b) \/ l >= r \/ t >= d
        THEN Rect(0, 0, 0, 0)
        ELSE Rect(l, t, r - l, d - t)

\* QRect(origin, pos).normalized() on one axis; the two points are inside
\* the rectangle, so pos = origin gives length 1 and pos = origin - 1
\* length 0
Span(o, p) ==
    IF p < o - 1 THEN [lo |-> p + 1, len |-> o - p - 1]
    ELSE [lo |-> o, len |-> p - o + 1]

NormalizedRect(origin, pos) ==
    Rect(Span(origin[1], pos[1]).lo, Span(origin[2], pos[2]).lo,
         Span(origin[1], pos[1]).len, Span(origin[2], pos[2]).len)

\* self.mapToScene(rect).boundingRect(): an invalid rect maps to the empty
\* polygon
MapToScene(view, rect) ==
    IF IsEmpty(rect) THEN Rect(0, 0, 0, 0)
    ELSE Rect(rect.x * view.upp + view.ox, rect.y * view.upp + view.oy,
              rect.w * view.upp, rect.h * view.upp)

\* self.pixmap_item.boundingRect(), in scene units
BoundingRect(pixmap) == Rect(0, 0, pixmap.w * SceneUnit, pixmap.h * SceneUnit)

\* qRound of a coordinate that is not negative, from scene units to pixels
QRound(u) == (u + SceneUnit \div 2) \div SceneUnit

\* QRectF.toRect(): x and y are rounded to the nearest integer, the width is
\* qRound(w + (x - qRound(x)) / 2), the height likewise
ToRect(r) ==
    Rect(QRound(r.x), QRound(r.y),
         (2 * r.w + (r.x - QRound(r.x) * SceneUnit) + SceneUnit) \div (2 * SceneUnit),
         (2 * r.h + (r.y - QRound(r.y) * SceneUnit) + SceneUnit) \div (2 * SceneUnit))

\* QPixmap.copy(rect), as the pixel rectangle of the pixmap that is copied:
\* the whole pixmap when rect is empty, else the part of rect inside it
PixmapCopy(pixmap, rect) ==
    IF IsEmpty(rect) THEN Rect(0, 0, pixmap.w, pixmap.h)
    ELSE Intersected(Rect(0, 0, pixmap.w, pixmap.h), rect)

\* what the mouse, the files and the window size can be
Buttons == {"left", "right", "middle"}
Points == {<<0, 0>>, <<1, 1>>, <<3, 2>>}
Pixmaps == {[loaded |-> TRUE, w |-> 3, h |-> 2], NullPixmap}
\* 400%, 100% and 66% zoom; the viewport's origin beside, on and inside the
\* image
ViewOrigins == {<<0, 0>>, <<-2, -2>>, <<10, 0>>}
Views == {[upp |-> u, ox |-> o[1], oy |-> o[2]] : u \in {1, SceneUnit, 6}, o \in ViewOrigins}

\* ImageCanvas.load_image: fitInView and centerOn choose the view from the
\* sizes of the image and of the viewport
load_image(c, pixmap, fit) ==
    [c EXCEPT !.has_user_transform = FALSE,
              !.current_pixmap = pixmap,
              !.pixmap_item = TRUE,
              !.view = IF IsEmpty(BoundingRect(pixmap)) THEN Identity ELSE fit]

\* ImageCanvas.mousePressEvent
mousePressEvent(c, button, pos) ==
    IF button = "left"
    THEN [c EXCEPT !.is_selecting = TRUE, !.origin = pos,
                   !.rubber_band = Rect(pos[1], pos[2], 0, 0)]
    ELSE IF button = "right"
    THEN [c EXCEPT !.is_panning = TRUE, !.pan_start = pos]
    ELSE c

\* ImageCanvas.mouseMoveEvent; scrolled is the view after the scroll bars
\* have been moved by, at most, the distance the mouse moved
mouseMoveEvent(c, pos, scrolled) ==
    IF c.is_selecting
    THEN [c EXCEPT !.rubber_band = NormalizedRect(c.origin, pos)]
    ELSE IF c.is_panning
    THEN [c EXCEPT !.has_user_transform = TRUE, !.pan_start = pos,
                   !.view = IF pos = c.pan_start THEN c.view ELSE scrolled]
    ELSE c

\* ImageCanvas.mouseReleaseEvent: [canvas, emitted]; an emitted signal is
\* recorded with the crop (the pixels of the image that were copied), the
\* intersection it was computed from and the image
mouseReleaseEvent(c, button) ==
    IF button = "left" /\ c.is_selecting
    THEN LET rect == c.rubber_band
             scene_rect == MapToScene(c.view, rect)
             img_rect == BoundingRect(c.current_pixmap)
             intersection == Intersected(scene_rect, img_rect)
         IN  [canvas |-> [c EXCEPT !.is_selecting = FALSE],
              emitted |->
                 IF c.current_pixmap.loaded /\ ~IsEmpty(scene_rect)
                    /\ ~IsEmpty(intersection)
                 THEN << [cropped |-> PixmapCopy(c.current_pixmap, ToRect(intersection)),
                          intersection |-> intersection,
                          image |-> c.current_pixmap] >>
                 ELSE << >>]
    ELSE IF button = "right" /\ c.is_panning
    THEN [canvas |-> [c EXCEPT !.is_panning = FALSE], emitted |-> << >>]
    ELSE [canvas |-> c, emitted |-> << >>]

-----------------------------------------------------------------------------
(* ui/window.py: MainWindow                                                *)

\* what a text pane shows: the kind of text, the worker whose signal set it
\* and the selection whose crop that worker read (0 for none)
Pane(kind, from, crop) == [kind |-> kind, from |-> from, crop |-> crop]
EmptyPane == Pane("empty", 0, 0)

\* MainWindow.__init__ and init_ui
MainWindowNew ==
    [ocr_text_edit |-> EmptyPane, trans_text_edit |-> EmptyPane,
     worker |-> 0, alive |-> TRUE]

IdleWindow ==
    /\ window = MainWindowNew
    /\ workers = <<>>
    /\ queue = <<>>
    /\ temp_file = 0

\* how many selections the user confirms
MaxSelections == 2

\* what a worker emits at the end of run(): finished(ocr_text, trans_text),
\* error("__OCR_NO_TEXT__") or error(any other message)
ResultKinds == {"finished", "no_text", "error"}

\* TranslationWorker.__init__ and start(): run() has read nothing yet
StartedWorker == [pc |-> "started", crop |-> 0]

\* MainWindow.handle_region_selected for the selection after those of ws:
\* accepted is the answer to the CropConfirmDialog, saved whether
\* pixmap.save wrote pact_crop.png (its result is not looked at)
handle_region_selected(w, ws, tf, accepted, saved) ==
    IF ~accepted THEN [window |-> w, workers |-> ws, temp_file |-> tf]
    ELSE [window |-> [w EXCEPT !.ocr_text_edit = Pane("processing", Len(ws) + 1, 0),
                               !.trans_text_edit = Pane("empty", Len(ws) + 1, 0),
                               !.worker = Len(ws) + 1],
          workers |-> Append(ws, StartedWorker),
          temp_file |-> IF saved THEN Len(ws) + 1 ELSE tf]

\* MainWindow.on_translation_finished; the normalised translation is the
\* text of the same worker
on_translation_finished(w, sig) ==
    [w EXCEPT !.ocr_text_edit = Pane("ocr_text", sig.from, sig.crop),
              !.trans_text_edit = Pane("translation", sig.from, sig.crop)]

\* MainWindow.on_translation_error
on_translation_error(w, sig) ==
    IF sig.kind = "no_text"
    THEN [w EXCEPT !.ocr_text_edit = Pane("no_text", sig.from, sig.crop)]
    ELSE [w EXCEPT !.ocr_text_edit = Pane("error", sig.from, sig.crop)]

-----------------------------------------------------------------------------
(* The configuration store on its own                                      *)

NoCall == [op |-> "none", data |-> EmptyItems, before |-> Missing,
           couldRead |-> TRUE, ret |-> EmptyDict, ok |-> FALSE]
NoLLMCall == [op |-> "none"]

IdleWorker ==
    /\ ocr_engine = OCREngineNew
    /\ worker = NoWorker
    /\ signals = <<>>
    /\ trace = <<>>
    /\ ImportedOcr
    /\ IdleCanvas
    /\ IdleWindow

CfgInit ==
    /\ file \in FileContents
    /\ readable \in BOOLEAN
    /\ writable \in BOOLEAN
    /\ cfgCall = NoCall
    /\ llm_engine = LLMEngineNew(EmptyItems)
    /\ llmCall = NoLLMCall
    /\ IdleWorker

SaveConfig ==
    /\ \E data \in DataDicts :
        LET r == save_config(file, readable, writable, data) IN
        /\ file' = r.file
        /\ cfgCall' = [op |-> "save", data |-> data, before |-> file,
                       couldRead |-> readable, ret |-> EmptyDict,
                       ok |-> r.ret]
    /\ UNCHANGED <<uiVars, readable, writable, llmVars, workerVars>>

LoadConfig ==
    /\ cfgCall' = [op |-> "load", data |-> EmptyItems, before |-> file,
                   couldRead |-> readable, ret |-> load_config(file, readable),
                   ok |-> FALSE]
    /\ UNCHANGED <<uiVars, file, readable, writable, llmVars, workerVars>>

\* the environment changes the permissions of config.json
SetPermissions ==
    /\ \E r \in BOOLEAN, w \in BOOLEAN :
         /\ <<r, w>> # <<readable, writable>>
         /\ readable' = r
         /\ writable' = w
    /\ UNCHANGED <<uiVars, file, cfgCall, llmVars, workerVars>>

CfgNext == SaveConfig \/ LoadConfig \/ SetPermissions

SpecConfig == CfgInit /\ [][CfgNext]_vars

-----------------------------------------------------------------------------
(* The methods of llm_engine, called with any arguments                    *)

\* the program starts with a config.json it can use: LLMEngine() is built
\* when engine/llm.py is imported
StartInit ==
    /\ file \in StartFiles
    /\ readable = TRUE
    /\ writable = TRUE
    /\ cfgCall = NoCall
    /\ llm_engine = LLMEngineNew(load_config(file, readable).items)

LLMInit ==
    /\ StartInit
    /\ llmCall = NoLLMCall
    /\ IdleWorker

Texts == {PyNone, PyStr(<<" ">>), PyStr(<<"POW!">>)}
ImagePaths == {PyNone, TempPath}

Configure ==
    /\ \E api_key \in {<<>>, LongKey}, base_url \in BaseUrls, model \in Models :
        /\ llm_engine' = configure(llm_engine, api_key, base_url, model)
        /\ llmCall' = [op |-> "configure"]
    /\ UNCHANGED <<uiVars, cfgVars, workerVars>>

Translate ==
    /\ \E text \in Texts, context \in Contexts, image_path \in ImagePaths,
          use_vision \in BOOLEAN, env \in TranslateEnvs :
        LET r == translate(llm_engine, text, context, image_path, use_vision, env) IN
        /\ llm_engine' = r.engine
        /\ llmCall' = [op |-> "translate", before |-> llm_engine, text |-> text,
                       image_path |-> image_path, use_vision |-> use_vision,
                       raised |-> r.raised, ret |-> r.ret,
                       requests |-> r.requests, failure |-> r.failure]
    /\ UNCHANGED <<uiVars, cfgVars, workerVars>>

TestConnection ==
    /\ \E api_key \in ApiKeys \ {<<>>}, base_url \in BaseUrls \ {<<>>},
          model \in Models, env \in TestEnvs :
        LET r == test_connection(api_key, base_url, model, env) IN
        /\ llmCall' = [op |-> "test_connection", before |-> llm_engine,
                       api_key |-> api_key, base_url |-> base_url,
                       server |-> env.server,
                       ok |-> r.ok, message |-> r.message, requests |-> r.requests]
    /\ UNCHANGED <<uiVars, llm_engine, cfgVars, workerVars>>

LLMNext == Configure \/ Translate \/ TestConnection

SpecLLM == LLMInit /\ [][LLMNext]_vars

-----------------------------------------------------------------------------
(* A TranslationWorker running beside the user interface                   *)

WorkerInit ==
    /\ StartInit
    /\ llmCall = NoLLMCall
    /\ IdleWorker

\* handle_region_selected (window.py:454-459): a worker is made and started
WorkerStart ==
    /\ worker.pc \in {"idle", "done"}
    /\ \E context \in Contexts :
        worker' = [NoWorker EXCEPT !.pc = "start", !.context = context]
    /\ signals' = <<>>
    /\ trace' = <<>>
    /\ UNCHANGED <<uiVars, cfgVars, llmVars, ocr_engine>>

\* run(), window.py:128-133 and 140: the mode is read and announced
RunBegin ==
    /\ worker.pc = "start"
    /\ LET use_vision == llm_engine.use_vision IN
        /\ worker' = [worker EXCEPT
                        !.use_vision = use_vision,
                        !.pc = IF use_vision THEN "vision" ELSE "ocr",
                        !.ocr_text = IF use_vision THEN VisionOcrText ELSE @]
        /\ signals' = Append(signals,
                        IF use_vision THEN Status("Vision mode: skipping local OCR")
                        ELSE Status("Running OCR..."))
    /\ UNCHANGED <<uiVars, cfgVars, llmVars, ocr_engine, trace>>

\* run(), window.py:135-137 (and 160-162 when translate raises)
RunVision ==
    /\ worker.pc = "vision"
    /\ \E env \in TranslateEnvs :
        LET r == translate(llm_engine, PyStr(<<>>), worker.context,
                           worker.image_path, TRUE, env) IN
        /\ llm_engine' = r.engine
        /\ trace' = trace \o TranslateEvents(PyStr(<<>>), TRUE, r)
        /\ signals' = signals \o AfterTranslate(worker.ocr_text, r)
    /\ worker' = [worker EXCEPT !.pc = "done"]
    /\ UNCHANGED <<uiVars, cfgVars, llmCall, ocr_engine>>

\* run(), window.py:141-154
RunOcr ==
    /\ worker.pc = "ocr"
    /\ \E env \in OcrEnvs :
        LET r == recognize(ocr_engine, worker.image_path, env)
            next == AfterOcr(r.ret) IN
        /\ ocr_engine' = r.ocr
        /\ trace' = trace \o <<[ev |-> "recognize", text |-> r.ret,
                                failure |-> r.failure]>>
        /\ signals' = signals \o next.emit
        /\ worker' = [worker EXCEPT !.ocr_text = r.ret, !.pc = next.pc]
    /\ UNCHANGED <<uiVars, cfgVars, llmVars>>

\* run(), window.py:155-158 (and 160-162 when translate raises)
RunTranslate ==
    /\ worker.pc = "translate"
    /\ \E env \in TranslateEnvs :
        LET r == translate(llm_engine, PyStr(worker.ocr_text), worker.context,
                           worker.image_path, FALSE, env) IN
        /\ llm_engine' = r.engine
        /\ trace' = trace \o TranslateEvents(PyStr(worker.ocr_text), FALSE, r)
        /\ signals' = signals \o AfterTranslate(worker.ocr_text, r)
    /\ worker' = [worker EXCEPT !.pc = "done"]
    /\ UNCHANGED <<uiVars, cfgVars, llmCall, ocr_engine>>

\* SettingsDialog.save_settings, on the user-interface thread
SaveSettings ==
    /\ \E api_key \in ApiKeys \ {<<>>}, base_url \in BaseUrls, model \in Models,
          vision \in BOOLEAN :
        LET e1 == configure(llm_engine, api_key, base_url, model)
            data == SettingsData(api_key, e1.base_url, e1.model, vision)
            r == save_config(file, readable, writable, data) IN
        /\ llm_engine' = [e1 EXCEPT !.use_vision = vision]
        /\ file' = r.file
        /\ cfgCall' = [op |-> "save", data |-> data, before |-> file,
                       couldRead |-> readable, ret |-> EmptyDict, ok |-> r.ret]
    /\ UNCHANGED <<uiVars, readable, writable, llmCall, workerVars>>

\* OcrInitWorker.run: the OCR engine is warmed up on another thread
WarmupOcr ==
    /\ ~ocr_engine.initialized
    /\ \E paddle \in PaddleOutcomes :
        ocr_engine' = initialize(ocr_engine, paddle).ocr
    /\ UNCHANGED <<uiVars, cfgVars, llmVars, worker, signals, trace>>

WorkerNext ==
    \/ WorkerStart
    \/ RunBegin
    \/ RunVision
    \/ RunOcr
    \/ RunTranslate
    \/ SaveSettings
    \/ WarmupOcr

SpecWorker == WorkerInit /\ [][WorkerNext]_vars

-----------------------------------------------------------------------------
(* The OCREngine class and its instance                                    *)

\* engine/ocr.py is being imported: the class exists, line 408 has not run.
\* ocr_engine holds the fields of the object cls._instance refers to.
OcrClassInit ==
    /\ StartInit
    /\ llmCall = NoLLMCall
    /\ ocr_engine = OCREngineNew
    /\ worker = NoWorker
    /\ signals = <<>>
    /\ trace = <<>>
    /\ OCREngine_instance = NoInstance
    /\ ocr_objects = 0
    /\ returned = <<>>
    /\ ocrCall = NoOcrCall
    /\ IdleCanvas
    /\ IdleWindow

\* OCREngine(): at ocr.py:408 first, anywhere afterwards
Construct ==
    /\ Len(returned) < MaxConstructions
    /\ LET r == OCREngine_new(OCREngine_instance, ocr_objects, ocr_engine) IN
        /\ OCREngine_instance' = r.instance
        /\ ocr_objects' = r.objects
        /\ ocr_engine' = r.fields
        /\ returned' = Append(returned, r.ret)
        /\ ocrCall' = [op |-> "new", ret |-> r.ret, before |-> ocr_engine]
    /\ UNCHANGED <<cfgVars, llmVars, worker, signals, trace, canvasVars, windowVars>>

\* ocr_engine.initialize()
OcrInitialize ==
    /\ OCREngine_instance # NoInstance
    /\ \E paddle \in PaddleOutcomes :
        LET r == initialize(ocr_engine, paddle) IN
        /\ ocr_engine' = r.ocr
        /\ ocrCall' = [op |-> "initialize", ret |-> r.ret, before |-> ocr_engine,
                       paddle |-> paddle]
    /\ UNCHANGED <<cfgVars, llmVars, worker, signals, trace, OCREngine_instance,
                   ocr_objects, returned, canvasVars, windowVars>>

\* ocr_engine.recognize(image_path)
OcrRecognize ==
    /\ OCREngine_instance # NoInstance
    /\ \E env \in OcrEnvs :
        LET r == recognize(ocr_engine, TempPath, env) IN
        /\ ocr_engine' = r.ocr
        /\ ocrCall' = [op |-> "recognize", ret |-> r.ret, before |-> ocr_engine,
                       failure |-> r.failure, exists |-> env.exists]
    /\ UNCHANGED <<cfgVars, llmVars, worker, signals, trace, OCREngine_instance,
                   ocr_objects, returned, canvasVars, windowVars>>

OcrNext == Construct \/ OcrInitialize \/ OcrRecognize

SpecOcr == OcrClassInit /\ [][OcrNext]_vars

-----------------------------------------------------------------------------
(* The ImageCanvas under the user's mouse                                  *)

CanvasInit ==
    /\ StartInit
    /\ llmCall = NoLLMCall
    /\ IdleWorker

CanvasRest == <<cfgVars, llmVars, workerVars, ocrClassVars, windowVars>>

LoadImage ==
    /\ \E pixmap \in Pixmaps, fit \in Views :
        canvas' = load_image(canvas, pixmap, fit)
    /\ UNCHANGED <<region_selected, CanvasRest>>

\* wheelEvent: nothing without an image; else the view is scaled by 1.25 or
\* 0.8 and centred again, which is a step to a nearer or a farther view
WheelEvent ==
    /\ \E zoom_in \in BOOLEAN :
        IF ~canvas.pixmap_item THEN UNCHANGED canvas
        ELSE \E v \in Views :
            /\ IF zoom_in THEN v.upp < canvas.view.upp ELSE v.upp > canvas.view.upp
            /\ canvas' = [canvas EXCEPT !.has_user_transform = TRUE, !.view = v]
    /\ UNCHANGED <<region_selected, CanvasRest>>

\* a left-button press begins a new press/release pair
MousePress ==
    /\ \E button \in Buttons, pos \in Points :
        /\ canvas' = mousePressEvent(canvas, button, pos)
        /\ region_selected' = IF button = "left" THEN << >> ELSE region_selected
    /\ UNCHANGED CanvasRest

MouseMove ==
    /\ \E pos \in Points, scrolled \in Views :
        /\ scrolled.upp = canvas.view.upp
        /\ canvas' = mouseMoveEvent(canvas, pos, scrolled)
    /\ UNCHANGED <<region_selected, CanvasRest>>

MouseRelease ==
    /\ \E button \in Buttons :
        LET r == mouseReleaseEvent(canvas, button) IN
        /\ canvas' = r.canvas
        /\ region_selected' = region_selected \o r.emitted
    /\ UNCHANGED CanvasRest

\* resizeEvent: nothing without an image; the image is fitted again unless
\* the user has zoomed or panned, else the view keeps its scale
ResizeEvent ==
    /\ IF ~canvas.pixmap_item THEN UNCHANGED canvas
       ELSE \E v \in Views :
            /\ canvas.has_user_transform => v.upp = canvas.view.upp
            /\ canvas' = [canvas EXCEPT !.view =
                   IF IsEmpty(BoundingRect(canvas.current_pixmap)) THEN canvas.view
                   ELSE v]
    /\ UNCHANGED <<region_selected, CanvasRest>>

CanvasNext ==
    \/ LoadImage
    \/ WheelEvent
    \/ MousePress
    \/ MouseMove
    \/ MouseRelease
    \/ ResizeEvent

SpecCanvas == CanvasInit /\ [][CanvasNext]_vars

-----------------------------------------------------------------------------
(* The MainWindow and the workers it starts                                *)

WindowInit ==
    /\ StartInit
    /\ llmCall = NoLLMCall
    /\ IdleWorker

WindowRest == <<cfgVars, llmVars, workerVars, ocrClassVars, canvasVars>>

\* region_selected reaches handle_region_selected, whether or not an
\* earlier worker is still running
HandleRegionSelected ==
    /\ window.alive
    /\ Len(workers) < MaxSelections
    /\ \E accepted \in BOOLEAN, saved \in BOOLEAN :
        LET r == handle_region_selected(window, workers, temp_file, accepted, saved) IN
        /\ window' = r.window
        /\ workers' = r.workers
        /\ temp_file' = r.temp_file
    /\ UNCHANGED <<queue, WindowRest>>

\* run() of worker i opens image_path, which is pact_crop.png for every
\* worker (recognize, or encode_image in Vision mode)
WorkerRead ==
    /\ window.alive
    /\ \E i \in 1..Len(workers) :
        /\ workers[i].pc = "started"
        /\ workers' = [workers EXCEPT ![i] = [pc |-> "read", crop |-> temp_file]]
    /\ UNCHANGED <<window, queue, temp_file, WindowRest>>

\* run() of worker i emits finished or error; the signal is queued for the
\* thread of the window
WorkerEmit ==
    /\ window.alive
    /\ \E i \in 1..Len(workers), kind \in ResultKinds :
        /\ workers[i].pc = "read"
        /\ workers' = [workers EXCEPT ![i].pc = "emitted"]
        /\ queue' = Append(queue, [from |-> i, kind |-> kind, crop |-> workers[i].crop])
    /\ UNCHANGED <<window, temp_file, WindowRest>>

\* run() of worker i has returned and its thread has ended
WorkerEnd ==
    /\ window.alive
    /\ \E i \in 1..Len(workers) :
        /\ workers[i].pc = "emitted"
        /\ workers' = [workers EXCEPT ![i].pc = "ended"]
    /\ UNCHANGED <<window, queue, temp_file, WindowRest>>

\* the event loop of the window delivers the oldest queued signal to its
\* slot
Deliver ==
    /\ window.alive
    /\ queue # << >>
    /\ window' = IF Head(queue).kind = "finished"
                 THEN on_translation_finished(window, Head(queue))
                 ELSE on_translation_error(window, Head(queue))
    /\ queue' = Tail(queue)
    /\ UNCHANGED <<workers, temp_file, WindowRest>>

\* self.worker = TranslationWorker(...) dropped the only reference to an
\* earlier worker: that QThread may be destroyed while its thread still
\* runs, which ends the process
DestroyedWhileRunning ==
    /\ window.alive
    /\ \E i \in 1..Len(workers) :
        /\ i # window.worker
        /\ workers[i].pc # "ended"
    /\ window' = [window EXCEPT !.alive = FALSE]
    /\ UNCHANGED <<workers, queue, temp_file, WindowRest>>

WindowNext ==
    \/ HandleRegionSelected
    \/ WorkerRead
    \/ WorkerEmit
    \/ WorkerEnd
    \/ Deliver
    \/ DestroyedWhileRunning

SpecWindow == WindowInit /\ [][WindowNext]_vars

-----------------------------------------------------------------------------
(* Claims about the configuration store (under SpecConfig)                 *)

\* the configuration a file holds: its JSON object, and nothing otherwise
Stored(f) ==
    IF f.kind = "json" /\ f.value.type = "dict" THEN f.value.items
    ELSE EmptyItems

(* C1: whenever save_config(data) returns True, the configuration stored   *)
(* in config.json afterwards is the configuration stored before with the   *)
(* keys of data set to their new values and every other key unchanged.     *)
C1_SaveMerges ==
    (cfgCall.op = "save" /\ cfgCall.ok) =>
        Stored(file) = Update(Stored(cfgCall.before), cfgCall.data)

(* C2: load_config always returns a dictionary: the parsed configuration   *)
(* when config.json exists and can be read and parsed, the empty           *)
(* dictionary when it is missing or reading or parsing fails.  (No path    *)
(* of load_config leaves by an exception: the model has no such outcome.)  *)
C2_LoadReturnsDict ==
    cfgCall.op = "load" =>
        LET f == cfgCall.before IN
        /\ cfgCall.ret.type = "dict"
        /\ (f.kind = "json" /\ cfgCall.couldRead) => cfgCall.ret = f.value
        /\ (f.kind # "json" \/ ~cfgCall.couldRead) => cfgCall.ret = EmptyDict

-----------------------------------------------------------------------------
(* Claims about the TranslationWorker (under SpecWorker)                   *)

Emitted(sig) == \E i \in 1..Len(signals) : signals[i].sig = sig
ResultSignals == {i \in 1..Len(signals) : signals[i].sig \in {"finished", "error"}}
Events(ev) == {i \in 1..Len(trace) : trace[i].ev = ev}
HasImage(request) ==
    \E j \in 1..Len(request.user_content) : request.user_content[j].type = "image_url"
\* the request carries a text to translate
HasOriginalText(request) ==
    \E j \in 1..Len(request.user_content) :
        LET part == request.user_content[j] IN
        /\ part.type = "text"
        /\ StartsWith(part.text, <<"Original Text:", "\n">>)
        /\ Len(part.text) > 2

(* C3: a run in Vision mode never calls the OCR engine, sends at most one  *)
(* request, and that request carries the crop image and no OCR text.       *)
C3_VisionSendsImage ==
    (worker.pc \in {"vision", "done"} /\ worker.use_vision) =>
        /\ Events("recognize") = {}
        /\ Cardinality(Events("request")) <= 1
        /\ \A i \in Events("request") :
            HasImage(trace[i].request) /\ ~HasOriginalText(trace[i].request)

(* C4: a run outside Vision mode calls translate at most once, only after  *)
(* recognize returned, only with a recognized text that is not blank, with *)
(* exactly that text and use_vision false; no request carries an image.    *)
C4_NonVisionTranslate ==
    (worker.pc \in {"ocr", "translate", "done"} /\ ~worker.use_vision) =>
        /\ Cardinality(Events("translate")) <= 1
        /\ \A i \in Events("translate") :
            /\ \E j \in 1..(i - 1) :
                trace[j].ev = "recognize" /\ PyStr(trace[j].text) = trace[i].text
            /\ ~Blank(trace[i].text.val)
            /\ trace[i].use_vision = FALSE
        /\ \A i \in Events("request") : ~HasImage(trace[i].request)

\* a run outside Vision mode that recognized a text and sent it
C4_TranslatedAfterOcr ==
    /\ worker.pc = "done" /\ ~worker.use_vision
    /\ Events("translate") # {}
    /\ \E i \in Events("request") : HasOriginalText(trace[i].request)

(* C5: whenever recognize returned one of its error results, the worker    *)
(* emits error, does not call translate and does not emit finished.        *)
C5_OcrFailureIsError ==
    \A i \in Events("recognize") :
        trace[i].failure # "none" =>
            /\ Emitted("error")
            /\ Events("translate") = {}
            /\ ~Emitted("finished")

(* C6: a run emits exactly one of finished and error, once, as the last    *)
(* signal of the run: none before run() ends, no status after it.          *)
C6_ExactlyOneResult ==
    /\ Cardinality(ResultSignals) <= 1
    /\ ResultSignals # {} <=> worker.pc = "done"
    /\ \A i \in ResultSignals : i = Len(signals)

\* runs that ended with finished, and runs that ended with error
C6_RunEnded ==
    /\ worker.pc = "done"
    /\ Emitted("finished")
    /\ Events("recognize") # {}

(* C7: finished is emitted only for a run that got a translation, and a    *)
(* failed translation (API not configured, or the API call raised) makes   *)
(* the worker emit error and not finished, in both modes.                  *)
C7_LlmFailureIsError ==
    worker.pc = "done" =>
        /\ Emitted("finished") =>
            \E i \in Events("translate") : trace[i].failure = "none"
        /\ \A i \in Events("translate") :
            trace[i].failure \in {"not_configured", "api_error"} =>
                Emitted("error") /\ ~Emitted("finished")

-----------------------------------------------------------------------------
(* Claims about llm_engine (under SpecLLM)                                 *)

(* C8: with no client configured, translate returns the "API not           *)
(* configured" message, sends no request and leaves the engine as it was,  *)
(* whatever its arguments.                                                 *)
C8_NotConfiguredNoRequest ==
    (llmCall.op = "translate" /\ ~llmCall.before.client.set) =>
        /\ ~llmCall.raised
        /\ llmCall.ret = PyStr(NotConfiguredMsg)
        /\ llmCall.requests = <<>>
        /\ llm_engine = llmCall.before

\* translate called in Vision mode with an image while no client is set
C8_CalledUnconfigured ==
    /\ llmCall.op = "translate" /\ ~llmCall.before.client.set
    /\ llmCall.use_vision /\ Truthy(llmCall.image_path)

(* C9: translate never raises; it returns a string, the translated text    *)
(* on success and an error message on failure.                             *)
C9_TranslateNeverRaises ==
    llmCall.op = "translate" =>
        /\ ~llmCall.raised
        /\ IsStr(llmCall.ret)
        /\ llmCall.failure = "none" => llmCall.ret = PyStr(Translation)
        /\ llmCall.failure # "none" =>
            \/ StartsWith(llmCall.ret.val, <<"Error:">>)
            \/ StartsWith(llmCall.ret.val, <<"API", " ", "Error:">>)

(* C10: test_connection returns True exactly when the server at the given  *)
(* base URL answers the test request, OpenRouter or not.                   *)
C10_TestReflectsServer ==
    llmCall.op = "test_connection" => (llmCall.ok <=> llmCall.server = "ok")

-----------------------------------------------------------------------------
(* C11: masking of the API key in test_connection's message                *)

\* the characters sub occur next to each other, in order, in line
ContainsRun(line, sub) ==
    \E i \in 1..(Len(line) - Len(sub) + 1) : SubSeq(line, i, i + Len(sub) - 1) = sub

\* some line of the message shows n consecutive characters of the key
ShowsRunOfKey(message, api_key, n) ==
    \E j \in 1..Len(message), k \in 1..(Len(api_key) - n + 1) :
        ContainsRun(message[j], SubSeq(api_key, k, k + n - 1))

\* C11: whatever the API key and whatever the outcome (success or failure),
\* the message returned by test_connection shows at most the first 4 and the
\* last 4 characters of the key: no line shows the whole key, and no line
\* shows more than 4 consecutive characters of it.
C11_KeyMasked ==
    llmCall.op = "test_connection" =>
        /\ \A j \in 1..Len(llmCall.message) :
               ~ContainsRun(llmCall.message[j], llmCall.api_key)
        /\ ~ShowsRunOfKey(llmCall.message, llmCall.api_key, 5)

-----------------------------------------------------------------------------
(* C12: OCREngine is a singleton                                           *)

\* C12: every call OCREngine() returns the same instance, the one the class
\* holds in _instance, and a construction after the first one leaves that
\* instance's ocr and initialized fields as they were.
C12_Singleton ==
    /\ \A i \in 1..Len(returned) :
           returned[i] = returned[1] /\ returned[i] = OCREngine_instance
    /\ (ocrCall.op = "new" /\ Len(returned) > 1) => ocr_engine = ocrCall.before

\* OCREngine() was called again after the instance had been initialized
C12_ConstructedAfterInitialize ==
    /\ ocrCall.op = "new"
    /\ Len(returned) > 1
    /\ ocrCall.before.initialized
    /\ ocrCall.before.ocr = "PaddleOCR"
-----------------------------------------------------------------------------
(* C13: a crop is a sub-rectangle of the loaded image                      *)

\* the pixel rectangle crop lies inside the image
InsideImage(crop, image) ==
    /\ crop.x >= 0 /\ crop.y >= 0
    /\ crop.x + crop.w <= image.w /\ crop.y + crop.h <= image.h

Near(a, b) == a - b < SceneUnit /\ b - a < SceneUnit

\* the pixel rectangle crop is the rectangle r of scene coordinates: every
\* edge of crop is less than one pixel away from the same edge of r
SameRectangle(crop, r) ==
    /\ Near(crop.x * SceneUnit, r.x)
    /\ Near(crop.y * SceneUnit, r.y)
    /\ Near((crop.x + crop.w) * SceneUnit, r.x + r.w)
    /\ Near((crop.y + crop.h) * SceneUnit, r.y + r.h)

\* C13: region_selected is emitted at most once per left-button
\* press/release pair, only when an image is loaded and the selection
\* rectangle mapped to image coordinates has a non-empty intersection with
\* the image bounds, and the emitted crop is that intersection and never
\* extends outside the image.
C13_CropIsIntersection ==
    /\ Len(region_selected) <= 1
    /\ \A i \in 1..Len(region_selected) :
        /\ region_selected[i].image.loaded
        /\ ~IsEmpty(region_selected[i].intersection)
        /\ Intersected(region_selected[i].intersection,
                       BoundingRect(region_selected[i].image))
               = region_selected[i].intersection
        /\ InsideImage(region_selected[i].cropped, region_selected[i].image)
        /\ SameRectangle(region_selected[i].cropped, region_selected[i].intersection)
-----------------------------------------------------------------------------
(* C14: the panes after several confirmed selections                       *)

\* every worker has emitted its result and every result has been delivered
AllDelivered ==
    /\ window.alive
    /\ queue = << >>
    /\ \A i \in 1..Len(workers) : workers[i].pc \in {"emitted", "ended"}

\* C14: when several selections have been confirmed and every worker's
\* result has been delivered, in whatever order the worker threads ran, both
\* text panes show the result of the most recently confirmed selection: the
\* result of an earlier worker has not replaced it.
C14_LatestSelectionShown ==
    (Len(workers) > 1 /\ AllDelivered) =>
        /\ window.ocr_text_edit.from = Len(workers)
        /\ window.trans_text_edit.from = Len(workers)
=============================================================================
